---- MODULE Spec2Model ----
(***************************************************************************)
(* kafkabp: the consumer supervisor (NewConsumer, Reset, Consume, Close,   *)
(* IsHealthy) and the construction path of the asynchronous producer,      *)
(* translated from consumer.go, producer.go and sarama_wrapper.go.         *)
(* The sarama client (sessions, partition streams) is the environment.     *)
(***************************************************************************)
EXTENDS Integers, Sequences, FiniteSets, TLC

\* ------------------------------------------------------------ bounds
\* Sessions the broker client can open during one run (construction plus
\* MaxSessions - 1 rebalances).
MaxSessions == 2
\* Partitions of the topic; a topic has at least one partition.
MaxPartitions == 2
\* Concurrent callers of consumer.Close.
NumClosers == 2
\* Messages, and errors, one partition stream delivers.
MaxMsgs == 1
MaxErrs == 1
\* Concurrent callers of TopicAsyncProducer.Publish, one message each.
NumPublishers == 2
\* Messages and errors one stream produces where callback order is examined.
OrderMsgs == 2

\* ------------------------------------------------------------ constants
OffsetOldest == -2
OffsetNewest == -1

ErrBrokersEmpty == "kafkabp: Brokers are empty"
ErrTopicEmpty == "kafkabp: Topic is empty"
ErrClientIDEmpty == "kafkabp: ClientID is empty"
\* Errors of the sarama client (opaque values supplied by the environment).
ErrNewConsumer == "sarama: NewConsumer failed"
ErrPartitions == "sarama: Partitions failed"
ErrConsumePartition == "sarama: ConsumePartition failed"
ErrSessionClose == "sarama: Close failed"
ErrNewAsyncProducer == "sarama: NewAsyncProducer failed"
ErrProducerClose == "sarama: AsyncProducer.Close failed"

Sessions == 1..MaxSessions
Partitions == 1..MaxPartitions
Closers == 1..NumClosers
StreamIds == Sessions \X Partitions
Publishers == 1..NumPublishers

\* The partition lists Partitions(topic) can return: the non-empty prefixes
\* of the topic's partitions.
Assignments == { [i \in 1..n |-> i] : n \in 1..MaxPartitions }

\* ConsumerConfig values.  saramaClientID is the ClientID carried by
\* cfg.SaramaConfig (or by DefaultSaramaConfig() when it is nil); tracing is
\* the *bool: "nil", "true" or "false".
AllCfgs ==
    [ brokers : {<<>>, <<"b1:9092">>},
      topic : {"", "t"},
      clientID : {"", "c1"},
      saramaClientID : {"", "sarama"},
      offset : {OffsetOldest, OffsetNewest, 0},
      tracing : {"nil", "true", "false"} ]

\* The configurations the lifecycle specification starts from.
LifecycleCfgs ==
    { [ brokers |-> <<"b1:9092">>, topic |-> "t", clientID |-> "c1",
        saramaClientID |-> "", offset |-> OffsetNewest, tracing |-> "true" ] }

ProducerCfgs == [ brokers : {<<>>, <<"b1:9092">>} ]

VARIABLES
    cfg,                  \* the ConsumerConfig passed to NewConsumer
    pc,                   \* position of the thread running NewConsumer, then Consume
    resetCaller,          \* who called Reset: "ctor" or "consume"
    ctorErr,              \* NewConsumer's error result ("none" until it returns)
    sess,                 \* sarama.Consumer sessions: "none", "open", "closed"
    sessCloses,           \* number of Close() calls each session received
    closeCalls,           \* history: session Close() calls made by consumer.Close
    kcConsumer,           \* kc.consumer (0 is nil)
    kcPartitions,         \* kc.partitions
    kcPartitionConsumers, \* kc.partitionConsumers (sequence of stream ids)
    closed,               \* kc.closed
    consumeReturned,      \* kc.consumeReturned
    kcWg,                 \* kc.wg counter
    lConsumer,            \* Consume: local consumer
    lPartitions,          \* Consume: local partitions
    lPCs,                 \* Consume: local partitionConsumers
    wg,                   \* Consume: local wg counter
    resetC,               \* Reset: c of the rebalance closure (0 is none)
    resetP,               \* Reset: partitions of the rebalance closure
    resetErr,             \* Reset: err of line 89 ("none" before the first Reset)
    consumeRet,           \* Consume's result ("none" until it has one)
    stState,              \* partition streams: "none", "failed" (ConsumePartition
                          \* returned an error), "open", "dying", "closed"
    msgCh,                \* Messages() channel of each stream
    errCh,                \* Errors() channel of each stream
    sent,                 \* messages each stream has put on its channel
    failed,               \* errors each stream has put on its channel
    msgW,                 \* message goroutine of each stream
    msgLog,               \* per stream: the messages handed to messagesFunc, in order
    errLog,               \* per stream: the errors handed to errorsFunc, in order
    errW,                 \* error goroutine of each stream
    closePc,              \* position of each Close caller
    won,                  \* result of each Close caller's CompareAndSwap
    closeRet,             \* result of each Close call
    closePCs,             \* Close: local partitionConsumers of the caller
    closeIdx,             \* Close: position in the AsyncClose loop
    closedDuringConsume,  \* history: the closed flag was set while Consume ran
    waitedForConsume,     \* history: Consume's kc.wg.Done() released a Close call
                          \* waiting in kc.wg.Wait()
    prodCfg,              \* the ProducerConfig passed to InitTopicAsyncProducer
    prodPc,               \* producer construction: "init", "failed", "ready"
    prodErr,              \* InitTopicAsyncProducer's error result
    prodClosed,           \* tp.closed
    prodSess,             \* sarama.AsyncProducer: "none", "open", "closing", "closed"
    prodInput,            \* messages the session took from Input() (by publisher)
    prodErrCh,            \* errors waiting on Errors()
    prodErrCount,         \* the kafka.producer.errors counter
    pubPc,                \* position of each Publish caller
    pubRes,               \* what each Publish call did: "none", "warned", "sent"
    pclosePc,             \* position of the caller of TopicAsyncProducer.Close
    pcloseRet             \* result of TopicAsyncProducer.Close

kcVars == <<kcConsumer, kcPartitions, kcPartitionConsumers, closed,
            consumeReturned, kcWg>>
sessVars == <<sess, sessCloses, closeCalls>>
consumeLocals == <<lConsumer, lPartitions, lPCs, wg, consumeRet>>
resetLocals == <<resetC, resetP, resetErr>>
streamVars == <<stState, msgCh, errCh, sent, failed>>
workerVars == <<msgW, errW, msgLog, errLog>>
closeVars == <<closePc, won, closeRet, closePCs, closeIdx, closedDuringConsume,
               waitedForConsume>>
pubVars == <<prodClosed, prodInput, prodErrCh, prodErrCount, pubPc, pubRes,
             pclosePc, pcloseRet>>
prodVars == <<prodCfg, prodPc, prodErr, prodSess, pubVars>>

vars == <<cfg, pc, resetCaller, ctorErr, sessVars, kcVars, consumeLocals,
          resetLocals, streamVars, workerVars, closeVars, prodVars>>

\* ------------------------------------------------------------ initial state
InitRest ==
    /\ pc = "new"
    /\ resetCaller = "none"
    /\ ctorErr = "none"
    /\ sess = [s \in Sessions |-> "none"]
    /\ sessCloses = [s \in Sessions |-> 0]
    /\ closeCalls = 0
    /\ kcConsumer = 0
    /\ kcPartitions = <<>>
    /\ kcPartitionConsumers = <<>>
    /\ closed = 0
    /\ consumeReturned = 0
    /\ kcWg = 0
    /\ lConsumer = 0
    /\ lPartitions = <<>>
    /\ lPCs = <<>>
    /\ wg = 0
    /\ resetC = 0
    /\ resetP = <<>>
    /\ resetErr = "none"
    /\ consumeRet = "none"
    /\ stState = [s \in StreamIds |-> "none"]
    /\ msgCh = [s \in StreamIds |-> <<>>]
    /\ errCh = [s \in StreamIds |-> <<>>]
    /\ sent = [s \in StreamIds |-> 0]
    /\ failed = [s \in StreamIds |-> 0]
    /\ msgW = [s \in StreamIds |-> "none"]
    /\ errW = [s \in StreamIds |-> "none"]
    /\ msgLog = [s \in StreamIds |-> <<>>]
    /\ errLog = [s \in StreamIds |-> <<>>]
    /\ closePc = [c \in Closers |-> "idle"]
    /\ won = [c \in Closers |-> FALSE]
    /\ closeRet = [c \in Closers |-> "none"]
    /\ closePCs = [c \in Closers |-> <<>>]
    /\ closeIdx = [c \in Closers |-> 0]
    /\ closedDuringConsume = FALSE
    /\ waitedForConsume = FALSE
    /\ prodPc = "init"
    /\ prodErr = "none"
    /\ prodClosed = 0
    /\ prodSess = "none"
    /\ prodInput = <<>>
    /\ prodErrCh = 0
    /\ prodErrCount = 0
    /\ pubPc = [p \in Publishers |-> "idle"]
    /\ pubRes = [p \in Publishers |-> "none"]
    /\ pclosePc = "idle"
    /\ pcloseRet = "none"

Init ==
    /\ cfg \in LifecycleCfgs
    /\ prodCfg = [brokers |-> <<"b1:9092">>]
    /\ InitRest

InitCtor ==
    /\ cfg \in AllCfgs
    /\ prodCfg \in ProducerCfgs
    /\ InitRest

\* ------------------------------------------------------------ helpers
NumSessions == Cardinality({s \in Sessions : sess[s] # "none"})

\* The session NewSaramaConsumer returns next.
FreshSession == NumSessions + 1

\* cfg.SaramaConfig.ClientID after lines 102-107.
EffectiveClientID(c) ==
    IF c.clientID # "" THEN c.clientID ELSE c.saramaClientID

\* Mutant: the topic is validated before the broker list.
ValidateTopicFirst(c) ==
    IF EffectiveClientID(c) = "" THEN ErrClientIDEmpty
    ELSE IF c.topic = "" THEN ErrTopicEmpty
    ELSE IF Len(c.brokers) = 0 THEN ErrBrokersEmpty
    ELSE "nil"

\* The validation of NewConsumer, in the order of the code: the error it
\* returns, or "nil".
ValidateConsumerConfig(c) ==
    IF EffectiveClientID(c) = "" THEN ErrClientIDEmpty
    ELSE IF Len(c.brokers) = 0 THEN ErrBrokersEmpty
    ELSE IF c.topic = "" THEN ErrTopicEmpty
    ELSE "nil"

\* cfg.Offset after lines 120-122.
ResolveOffset(c) ==
    IF c.offset # OffsetNewest THEN OffsetOldest ELSE c.offset

\* ------------------------------------------------------------ NewConsumer
\* Lines 100-136: validation, the offset and tracing defaults, the struct.
\* Dereferencing the nil cfg.Tracing (line 125) panics.
NewConsumer_Validate ==
    /\ pc = "new"
    /\ LET e == ValidateConsumerConfig(cfg) IN
       IF e # "nil"
       THEN /\ pc' = "ctor_failed"
            /\ ctorErr' = e
            /\ UNCHANGED <<cfg, resetCaller>>
       ELSE IF cfg.tracing = "nil"
       THEN /\ pc' = "ctor_panic"
            /\ UNCHANGED <<cfg, ctorErr, resetCaller>>
       ELSE /\ cfg' = [cfg EXCEPT !.offset = ResolveOffset(cfg),
                                  !.saramaClientID = EffectiveClientID(cfg)]
            /\ pc' = "reset_close"
            /\ resetCaller' = "ctor"
            /\ UNCHANGED ctorErr
    /\ UNCHANGED <<sessVars, kcVars, consumeLocals, resetLocals, streamVars,
                   workerVars, closeVars, prodVars>>

\* ------------------------------------------------------------ Reset
\* Mutant: Consume swallows the error of a failed Reset and returns nil.
ResetFailedSwallowed(e) ==
    /\ resetErr' = e
    /\ IF resetCaller = "ctor"
       THEN /\ pc' = "ctor_failed"
            /\ ctorErr' = e
            /\ UNCHANGED consumeRet
       ELSE /\ pc' = "defer_done"
            /\ consumeRet' = "nil"
            /\ UNCHANGED ctorErr

\* What Reset's caller does with a failed Reset: NewConsumer returns
\* (nil, err) (line 140); Consume returns err (line 236).
ResetFailed(e) ==
    /\ resetErr' = e
    /\ IF resetCaller = "ctor"
       THEN /\ pc' = "ctor_failed"
            /\ ctorErr' = e
            /\ UNCHANGED consumeRet
       ELSE /\ pc' = "defer_done"
            /\ consumeRet' = e
            /\ UNCHANGED ctorErr

\* Lines 67-71: close the prior session, if any; an error is only logged.
Reset_CloseOld ==
    /\ pc = "reset_close"
    /\ IF kcConsumer # 0
       THEN /\ sess' = [sess EXCEPT ![kcConsumer] = "closed"]
            /\ sessCloses' = [sessCloses EXCEPT ![kcConsumer] = @ + 1]
            /\ UNCHANGED closeCalls
       ELSE UNCHANGED sessVars
    /\ pc' = "reset_open"
    /\ UNCHANGED <<cfg, resetCaller, ctorErr, kcVars, consumeLocals, resetLocals,
                   streamVars, workerVars, closeVars, prodVars>>

\* Lines 74-77: NewSaramaConsumer succeeds with a fresh session, or fails.
Reset_NewSaramaConsumer ==
    /\ pc = "reset_open"
    /\ \/ /\ NumSessions < MaxSessions
          /\ sess' = [sess EXCEPT ![FreshSession] = "open"]
          /\ resetC' = FreshSession
          /\ pc' = "reset_parts"
          /\ UNCHANGED <<ctorErr, consumeRet, resetErr>>
       \/ /\ ResetFailed(ErrNewConsumer)
          /\ UNCHANGED <<sess, resetC>>
    /\ UNCHANGED <<cfg, resetCaller, sessCloses, closeCalls, kcVars, lConsumer, lPartitions,
                   lPCs, wg, resetP, streamVars, workerVars, closeVars, prodVars>>

\* Lines 79-82: c.Partitions(topic) returns the partition list, or fails; on
\* failure rebalance returns without closing c.
Reset_Partitions ==
    /\ pc = "reset_parts"
    /\ \/ /\ \E a \in Assignments : resetP' = a
          /\ pc' = "reset_store_c"
          /\ UNCHANGED <<ctorErr, consumeRet, resetErr>>
       \/ /\ ResetFailed(ErrPartitions)
          /\ UNCHANGED resetP
    /\ UNCHANGED <<cfg, resetCaller, sessVars, kcVars, lConsumer, lPartitions,
                   lPCs, wg, resetC, streamVars, workerVars, closeVars, prodVars>>

\* Line 84: kc.consumer.Store(c).
Reset_StoreConsumer ==
    /\ pc = "reset_store_c"
    /\ kcConsumer' = resetC
    /\ pc' = "reset_store_p"
    /\ UNCHANGED <<cfg, resetCaller, ctorErr, sessVars, kcPartitions,
                   kcPartitionConsumers, closed, consumeReturned, kcWg,
                   consumeLocals, resetLocals, streamVars, workerVars, closeVars,
                   prodVars>>

\* Lines 85-96: kc.partitions.Store(partitions); Reset returns nil, and its
\* caller goes on: NewConsumer returns the consumer (line 143), Consume loops
\* (line 179).
Reset_StorePartitions ==
    /\ pc = "reset_store_p"
    /\ kcPartitions' = resetP
    /\ resetErr' = "nil"
    /\ IF resetCaller = "ctor"
       THEN /\ pc' = "ctor_ok"
            /\ ctorErr' = "nil"
       ELSE /\ pc' = "loop"
            /\ UNCHANGED ctorErr
    /\ UNCHANGED <<cfg, resetCaller, sessVars, kcConsumer, kcPartitionConsumers,
                   closed, consumeReturned, kcWg, consumeLocals, resetC, resetP,
                   streamVars, workerVars, closeVars, prodVars>>

Reset ==
    \/ Reset_CloseOld
    \/ Reset_NewSaramaConsumer
    \/ Reset_Partitions
    \/ Reset_StoreConsumer
    \/ Reset_StorePartitions

\* ------------------------------------------------------------ Consume
\* The positions at which a Consume invocation has been entered and has not
\* returned yet.
ConsumeRunning ==
    \/ pc \in {"entered", "loop", "open", "wait", "check", "defer_done",
               "defer_store"}
    \/ /\ resetCaller = "consume"
       /\ pc \in {"reset_close", "reset_open", "reset_parts", "reset_store_c",
                  "reset_store_p"}

\* The consumer handle exists: NewConsumer has returned it.
Constructed == pc = "ctor_ok" \/ ConsumeRunning \/ pc = "returned"

\* Line 170: Consume is entered and registers the deferred store.
Consume_Enter ==
    /\ pc = "ctor_ok"
    /\ pc' = "entered"
    /\ UNCHANGED <<cfg, resetCaller, ctorErr, sessVars, kcVars, consumeLocals,
                   resetLocals, streamVars, workerVars, closeVars, prodVars>>

\* Lines 171-172: kc.wg.Add(1), defer kc.wg.Done().
Consume_WgAdd ==
    /\ pc = "entered"
    /\ kcWg' = kcWg + 1
    /\ pc' = "loop"
    /\ UNCHANGED <<cfg, resetCaller, ctorErr, sessVars, kcConsumer, kcPartitions,
                   kcPartitionConsumers, closed, consumeReturned, consumeLocals,
                   resetLocals, streamVars, workerVars, closeVars, prodVars>>

\* Lines 181-183: the loop reads the session and the assignment.
Consume_Load ==
    /\ pc = "loop"
    /\ lConsumer' = kcConsumer
    /\ lPartitions' = kcPartitions
    /\ lPCs' = <<>>
    /\ pc' = "open"
    /\ UNCHANGED <<cfg, resetCaller, ctorErr, sessVars, kcVars, wg, consumeRet,
                   resetLocals, streamVars, workerVars, closeVars, prodVars>>

\* Mutant: after a failed ConsumePartition the loop goes on to the next
\* partition.
Consume_OpenPartitionContinue ==
    /\ pc = "open"
    /\ Len(lPCs) < Len(lPartitions)
    /\ LET s == <<lConsumer, lPartitions[Len(lPCs) + 1]>> IN
       \/ /\ sess[lConsumer] = "open"
          /\ stState' = [stState EXCEPT ![s] = "open"]
          /\ lPCs' = Append(lPCs, s)
          /\ wg' = wg + 2
          /\ msgW' = [msgW EXCEPT ![s] = "recv"]
          /\ errW' = [errW EXCEPT ![s] = "recv"]
          /\ UNCHANGED <<pc, consumeRet>>
       \/ /\ consumeRet' = ErrConsumePartition
          /\ stState' = [stState EXCEPT ![s] = "failed"]
          /\ lPCs' = Append(lPCs, s)
          /\ UNCHANGED <<pc, wg, msgW, errW>>
    /\ UNCHANGED <<cfg, resetCaller, ctorErr, sessVars, kcVars, lConsumer,
                   lPartitions, resetLocals, msgCh, errCh, sent, failed,
                   msgLog, errLog, closeVars, prodVars>>

\* Lines 185-226, one partition: ConsumePartition opens the stream and the two
\* goroutines are started, or it fails and Consume returns the error (line
\* 188).  A closed session opens no stream.
Consume_OpenPartition ==
    /\ pc = "open"
    /\ Len(lPCs) < Len(lPartitions)
    /\ LET s == <<lConsumer, lPartitions[Len(lPCs) + 1]>> IN
       \/ /\ sess[lConsumer] = "open"
          /\ stState' = [stState EXCEPT ![s] = "open"]
          /\ lPCs' = Append(lPCs, s)
          /\ wg' = wg + 2
          /\ msgW' = [msgW EXCEPT ![s] = "recv"]
          /\ errW' = [errW EXCEPT ![s] = "recv"]
          /\ UNCHANGED <<pc, consumeRet>>
       \/ /\ consumeRet' = ErrConsumePartition
          /\ stState' = [stState EXCEPT ![s] = "failed"]
          /\ pc' = "defer_done"
          /\ UNCHANGED <<lPCs, wg, msgW, errW>>
    /\ UNCHANGED <<cfg, resetCaller, ctorErr, sessVars, kcVars, lConsumer,
                   lPartitions, resetLocals, msgCh, errCh, sent, failed,
                   msgLog, errLog, closeVars, prodVars>>

\* Line 227: kc.partitionConsumers.Store(partitionConsumers).
Consume_StorePartitionConsumers ==
    /\ pc = "open"
    /\ Len(lPCs) = Len(lPartitions)
    /\ kcPartitionConsumers' = lPCs
    /\ pc' = "wait"
    /\ UNCHANGED <<cfg, resetCaller, ctorErr, sessVars, kcConsumer, kcPartitions,
                   closed, consumeReturned, kcWg, consumeLocals, resetLocals,
                   streamVars, workerVars, closeVars, prodVars>>

\* Line 229: wg.Wait().
Consume_Wait ==
    /\ pc = "wait"
    /\ wg = 0
    /\ pc' = "check"
    /\ UNCHANGED <<cfg, resetCaller, ctorErr, sessVars, kcVars, consumeLocals,
                   resetLocals, streamVars, workerVars, closeVars, prodVars>>

\* Mutant: Consume returns once its goroutines have finished, closed or not.
Consume_CheckClosedNoRebalance ==
    /\ pc = "check"
    /\ consumeRet' = "nil"
    /\ pc' = "defer_done"
    /\ UNCHANGED <<cfg, resetCaller, ctorErr, sessVars, kcVars, lConsumer,
                   lPartitions, lPCs, wg, resetLocals, streamVars, workerVars,
                   closeVars, prodVars>>

\* Lines 231-235: return nil when closed, else Reset.
Consume_CheckClosed ==
    /\ pc = "check"
    /\ IF closed # 0
       THEN /\ consumeRet' = "nil"
            /\ pc' = "defer_done"
            /\ UNCHANGED resetCaller
       ELSE /\ pc' = "reset_close"
            /\ resetCaller' = "consume"
            /\ UNCHANGED consumeRet
    /\ UNCHANGED <<cfg, ctorErr, sessVars, kcVars, lConsumer, lPartitions, lPCs,
                   wg, resetLocals, streamVars, workerVars, closeVars, prodVars>>

\* Line 172, deferred: kc.wg.Done().
Consume_DeferDone ==
    /\ pc = "defer_done"
    /\ kcWg' = kcWg - 1
    /\ pc' = "defer_store"
    /\ waitedForConsume' =
          (waitedForConsume \/ \E c \in Closers : closePc[c] = "wait")
    /\ UNCHANGED <<cfg, resetCaller, ctorErr, sessVars, kcConsumer, kcPartitions,
                   kcPartitionConsumers, closed, consumeReturned, consumeLocals,
                   resetLocals, streamVars, workerVars, closePc, won, closeRet,
                   closePCs, closeIdx, closedDuringConsume, prodVars>>

\* Mutant: the health flag is stored on the clean return only.
Consume_StoreOnCleanReturn ==
    /\ pc = "defer_store"
    /\ consumeReturned' = IF consumeRet = "nil" THEN 1 ELSE consumeReturned
    /\ pc' = "returned"
    /\ UNCHANGED <<cfg, resetCaller, ctorErr, sessVars, kcConsumer, kcPartitions,
                   kcPartitionConsumers, closed, kcWg, consumeLocals,
                   resetLocals, streamVars, workerVars, closeVars, prodVars>>

\* Line 170, deferred: atomic.StoreInt64(&kc.consumeReturned, 1); Consume
\* has returned.
Consume_DeferStore ==
    /\ pc = "defer_store"
    /\ consumeReturned' = 1
    /\ pc' = "returned"
    /\ UNCHANGED <<cfg, resetCaller, ctorErr, sessVars, kcConsumer, kcPartitions,
                   kcPartitionConsumers, closed, kcWg, consumeLocals,
                   resetLocals, streamVars, workerVars, closeVars, prodVars>>

Consume ==
    \/ Consume_Enter
    \/ Consume_WgAdd
    \/ Consume_Load
    \/ Consume_OpenPartition
    \/ Consume_StorePartitionConsumers
    \/ Consume_Wait
    \/ Consume_CheckClosed
    \/ Consume_DeferDone
    \/ Consume_DeferStore

\* Line 243.
IsHealthy == consumeReturned = 0

\* ------------------------------------------------------------ goroutines
\* Mutant: the message goroutine hands over the newest message first.
MsgWorker_ReceiveNewest(s) ==
    /\ msgW[s] = "recv"
    /\ msgCh[s] # <<>>
    /\ msgCh' = [msgCh EXCEPT ![s] = SubSeq(@, 1, Len(@) - 1)]
    /\ msgLog' = [msgLog EXCEPT ![s] = Append(@, msgCh[s][Len(msgCh[s])])]
    /\ msgW' = [msgW EXCEPT ![s] = "cb"]
    /\ UNCHANGED <<cfg, pc, resetCaller, ctorErr, sessVars, kcVars,
                   consumeLocals, resetLocals, stState, errCh, sent, failed,
                   errW, errLog, closeVars, prodVars>>

\* Lines 196-213: the message goroutine receives m and calls messagesFunc.
MsgWorker_Receive(s) ==
    /\ msgW[s] = "recv"
    /\ msgCh[s] # <<>>
    /\ msgCh' = [msgCh EXCEPT ![s] = Tail(@)]
    /\ msgLog' = [msgLog EXCEPT ![s] = Append(@, Head(msgCh[s]))]
    /\ msgW' = [msgW EXCEPT ![s] = "cb"]
    /\ UNCHANGED <<cfg, pc, resetCaller, ctorErr, sessVars, kcVars,
                   consumeLocals, resetLocals, stState, errCh, sent, failed,
                   errW, errLog, closeVars, prodVars>>

\* Lines 213-214: messagesFunc returns.
MsgWorker_Return(s) ==
    /\ msgW[s] = "cb"
    /\ msgW' = [msgW EXCEPT ![s] = "recv"]
    /\ UNCHANGED <<cfg, pc, resetCaller, ctorErr, sessVars, kcVars,
                   consumeLocals, resetLocals, streamVars, errW, msgLog, errLog,
                   closeVars, prodVars>>

\* Lines 195-196: the channel is closed and drained; the range loop ends and
\* the deferred wg.Done() runs.
MsgWorker_Exit(s) ==
    /\ msgW[s] = "recv"
    /\ msgCh[s] = <<>>
    /\ stState[s] = "closed"
    /\ msgW' = [msgW EXCEPT ![s] = "done"]
    /\ wg' = wg - 1
    /\ UNCHANGED <<cfg, pc, resetCaller, ctorErr, sessVars, kcVars, lConsumer,
                   lPartitions, lPCs, consumeRet, resetLocals, streamVars, errW,
                   msgLog, errLog, closeVars, prodVars>>

\* Lines 222-223: the error goroutine receives err and calls errorsFunc.
ErrWorker_Receive(s) ==
    /\ errW[s] = "recv"
    /\ errCh[s] # <<>>
    /\ errCh' = [errCh EXCEPT ![s] = Tail(@)]
    /\ errLog' = [errLog EXCEPT ![s] = Append(@, Head(errCh[s]))]
    /\ errW' = [errW EXCEPT ![s] = "cb"]
    /\ UNCHANGED <<cfg, pc, resetCaller, ctorErr, sessVars, kcVars,
                   consumeLocals, resetLocals, stState, msgCh, sent, failed,
                   msgW, msgLog, closeVars, prodVars>>

\* Line 223: errorsFunc returns.
ErrWorker_Return(s) ==
    /\ errW[s] = "cb"
    /\ errW' = [errW EXCEPT ![s] = "recv"]
    /\ UNCHANGED <<cfg, pc, resetCaller, ctorErr, sessVars, kcVars,
                   consumeLocals, resetLocals, streamVars, msgW, msgLog, errLog,
                   closeVars, prodVars>>

\* Lines 221-222: the range loop over Errors() ends; wg.Done().
ErrWorker_Exit(s) ==
    /\ errW[s] = "recv"
    /\ errCh[s] = <<>>
    /\ stState[s] = "closed"
    /\ errW' = [errW EXCEPT ![s] = "done"]
    /\ wg' = wg - 1
    /\ UNCHANGED <<cfg, pc, resetCaller, ctorErr, sessVars, kcVars, lConsumer,
                   lPartitions, lPCs, consumeRet, resetLocals, streamVars, msgW,
                   msgLog, errLog, closeVars, prodVars>>

Worker(s) ==
    \/ MsgWorker_Receive(s)
    \/ MsgWorker_Return(s)
    \/ MsgWorker_Exit(s)
    \/ ErrWorker_Receive(s)
    \/ ErrWorker_Return(s)
    \/ ErrWorker_Exit(s)

\* ------------------------------------------------------------ partition streams
\* AsyncClose on a stream: an open stream starts closing.
AsyncClose(st, s) ==
    IF st[s] = "open" THEN [st EXCEPT ![s] = "dying"] ELSE st

\* The stream puts a message on Messages() (it may still do so while it is
\* closing: AsyncClose leaves room to drain); it produces at most n.
Deliver(s, n) ==
    /\ stState[s] \in {"open", "dying"}
    /\ sent[s] < n
    /\ msgCh' = [msgCh EXCEPT ![s] = Append(@, sent[s] + 1)]
    /\ sent' = [sent EXCEPT ![s] = @ + 1]
    /\ UNCHANGED <<cfg, pc, resetCaller, ctorErr, sessVars, kcVars,
                   consumeLocals, resetLocals, stState, errCh, failed,
                   workerVars, closeVars, prodVars>>

Stream_Deliver(s) == Deliver(s, MaxMsgs)

\* The stream puts an error on Errors(); it produces at most n.
Fail(s, n) ==
    /\ stState[s] \in {"open", "dying"}
    /\ failed[s] < n
    /\ errCh' = [errCh EXCEPT ![s] = Append(@, failed[s] + 1)]
    /\ failed' = [failed EXCEPT ![s] = @ + 1]
    /\ UNCHANGED <<cfg, pc, resetCaller, ctorErr, sessVars, kcVars,
                   consumeLocals, resetLocals, stState, msgCh, sent,
                   workerVars, closeVars, prodVars>>

Stream_Error(s) == Fail(s, MaxErrs)

\* A stream on which AsyncClose was called closes its channels.
Stream_ChannelsClose(s) ==
    /\ stState[s] = "dying"
    /\ stState' = [stState EXCEPT ![s] = "closed"]
    /\ UNCHANGED <<cfg, pc, resetCaller, ctorErr, sessVars, kcVars,
                   consumeLocals, resetLocals, msgCh, errCh, sent, failed,
                   workerVars, closeVars, prodVars>>

\* Rebalance: the broker client closes the channels of an open stream without
\* AsyncClose.  Bounded: a rebalance needs a session left to recover with.
Stream_Rebalance(s) ==
    /\ stState[s] = "open"
    /\ NumSessions < MaxSessions
    /\ stState' = [stState EXCEPT ![s] = "closed"]
    /\ UNCHANGED <<cfg, pc, resetCaller, ctorErr, sessVars, kcVars,
                   consumeLocals, resetLocals, msgCh, errCh, sent, failed,
                   workerVars, closeVars, prodVars>>

Stream(s) ==
    \/ Stream_Deliver(s)
    \/ Stream_Error(s)
    \/ Stream_ChannelsClose(s)
    \/ Stream_Rebalance(s)

\* ------------------------------------------------------------ Close
\* Mutant: the closed flag is set without comparing.
SwapWithoutCompare == TRUE

\* Mutant: a Close call that finds closing in progress reports an error.
EarlyResultError == "kafkabp: already closed"

\* Line 149: atomic.CompareAndSwapInt64(&kc.closed, 0, 1) swaps when the flag
\* is 0.
CompareAndSwapClosed == closed = 0

\* Line 150: the result of a Close call that found closing in progress.
EarlyResult == "nil"

\* Lines 149-151.
Close_CAS(c) ==
    /\ Constructed
    /\ closePc[c] = "idle"
    /\ IF CompareAndSwapClosed
       THEN /\ closed' = 1
            /\ won' = [won EXCEPT ![c] = TRUE]
            /\ closePc' = [closePc EXCEPT ![c] = "load"]
            /\ closedDuringConsume' = (closedDuringConsume \/ ConsumeRunning)
            /\ UNCHANGED closeRet
       ELSE /\ closePc' = [closePc EXCEPT ![c] = "returned"]
            /\ closeRet' = [closeRet EXCEPT ![c] = EarlyResult]
            /\ UNCHANGED <<closed, won, closedDuringConsume>>
    /\ UNCHANGED <<cfg, pc, resetCaller, ctorErr, sessVars, kcConsumer,
                   kcPartitions, kcPartitionConsumers, consumeReturned, kcWg,
                   consumeLocals, resetLocals, streamVars, workerVars, closePCs,
                   closeIdx, waitedForConsume,
                   prodVars>>

\* Line 153: partitionConsumers := kc.getPartitionConsumers().
Close_LoadPartitionConsumers(c) ==
    /\ closePc[c] = "load"
    /\ closePCs' = [closePCs EXCEPT ![c] = kcPartitionConsumers]
    /\ closeIdx' = [closeIdx EXCEPT ![c] = 1]
    /\ closePc' = [closePc EXCEPT ![c] =
                     IF kcPartitionConsumers = <<>> THEN "wait" ELSE "asyncclose"]
    /\ UNCHANGED <<cfg, pc, resetCaller, ctorErr, sessVars, kcVars,
                   consumeLocals, resetLocals, streamVars, workerVars, won,
                   closeRet, closedDuringConsume, waitedForConsume,
                   prodVars>>

\* Lines 154-157, one iteration: pc.AsyncClose().
Close_AsyncClose(c) ==
    /\ closePc[c] = "asyncclose"
    /\ stState' = AsyncClose(stState, closePCs[c][closeIdx[c]])
    /\ closeIdx' = [closeIdx EXCEPT ![c] = @ + 1]
    /\ closePc' = [closePc EXCEPT ![c] =
                     IF closeIdx[c] = Len(closePCs[c]) THEN "wait" ELSE "asyncclose"]
    /\ UNCHANGED <<cfg, pc, resetCaller, ctorErr, sessVars, kcVars,
                   consumeLocals, resetLocals, msgCh, errCh, sent, failed,
                   workerVars, won, closeRet, closePCs, closedDuringConsume, waitedForConsume,
                   prodVars>>

\* Line 159: kc.wg.Wait().
Close_Wait(c) ==
    /\ closePc[c] = "wait"
    /\ kcWg = 0
    /\ closePc' = [closePc EXCEPT ![c] = "sessclose"]
    /\ UNCHANGED <<cfg, pc, resetCaller, ctorErr, sessVars, kcVars,
                   consumeLocals, resetLocals, streamVars, workerVars, won,
                   closeRet, closePCs, closeIdx, closedDuringConsume, waitedForConsume,
                   prodVars>>

\* Mutant: Close returns after the wait without closing the session.
Close_ReturnWithoutSessionClose(c) ==
    /\ closePc[c] = "sessclose"
    /\ closeRet' = [closeRet EXCEPT ![c] = "nil"]
    /\ closePc' = [closePc EXCEPT ![c] = "returned"]
    /\ UNCHANGED <<cfg, pc, resetCaller, ctorErr, sessVars, kcVars, consumeLocals,
                   resetLocals, streamVars, workerVars, won, closePCs, closeIdx,
                   closedDuringConsume, waitedForConsume,
                   prodVars>>

\* Line 160: return kc.getConsumer().Close(); the session's Close returns nil
\* or an error.
Close_SessionClose(c) ==
    /\ closePc[c] = "sessclose"
    /\ IF kcConsumer = 0
       THEN /\ closePc' = [closePc EXCEPT ![c] = "panicked"]
            /\ UNCHANGED <<sessVars, closeRet>>
       ELSE /\ sess' = [sess EXCEPT ![kcConsumer] = "closed"]
            /\ sessCloses' = [sessCloses EXCEPT ![kcConsumer] = @ + 1]
            /\ closeCalls' = closeCalls + 1
            /\ \E r \in {"nil", ErrSessionClose} :
                  closeRet' = [closeRet EXCEPT ![c] = r]
            /\ closePc' = [closePc EXCEPT ![c] = "returned"]
    /\ UNCHANGED <<cfg, pc, resetCaller, ctorErr, kcVars, consumeLocals,
                   resetLocals, streamVars, workerVars, won, closePCs, closeIdx,
                   closedDuringConsume, waitedForConsume,
                   prodVars>>

Close(c) ==
    \/ Close_CAS(c)
    \/ Close_LoadPartitionConsumers(c)
    \/ Close_AsyncClose(c)
    \/ Close_Wait(c)
    \/ Close_SessionClose(c)

\* ------------------------------------------------------------ producer
\* InitTopicAsyncProducer, lines 50-78: an empty broker list is refused;
\* sarama.NewAsyncProducer succeeds or fails.
InitTopicAsyncProducer ==
    /\ prodPc = "init"
    /\ IF Len(prodCfg.brokers) = 0
       THEN /\ prodPc' = "failed"
            /\ prodErr' = ErrBrokersEmpty
            /\ UNCHANGED prodSess
       ELSE \E ok \in BOOLEAN :
              /\ prodPc' = IF ok THEN "ready" ELSE "failed"
              /\ prodErr' = IF ok THEN "nil" ELSE ErrNewAsyncProducer
              /\ prodSess' = IF ok THEN "open" ELSE prodSess
    /\ UNCHANGED <<cfg, pc, resetCaller, ctorErr, sessVars, kcVars,
                   consumeLocals, resetLocals, streamVars, workerVars, closeVars,
                   prodCfg, pubVars>>

consumerVars == <<cfg, pc, resetCaller, ctorErr, sessVars, kcVars,
                  consumeLocals, resetLocals, streamVars, workerVars, closeVars>>

\* Mutant: Publish does not look at the closed flag.
Publish_NoCheck(p) ==
    /\ prodPc = "ready"
    /\ pubPc[p] = "idle"
    /\ pubPc' = [pubPc EXCEPT ![p] = "send"]
    /\ UNCHANGED <<consumerVars, prodCfg, prodPc, prodErr, prodSess, prodClosed,
                   prodInput, prodErrCh, prodErrCount, pubRes, pclosePc,
                   pcloseRet>>

\* Publish, lines 83-87: with the closed flag set the call logs a warning and
\* returns; otherwise it goes on to build and send the message.
Publish_CheckClosed(p) ==
    /\ prodPc = "ready"
    /\ pubPc[p] = "idle"
    /\ IF prodClosed # 0
       THEN /\ pubPc' = [pubPc EXCEPT ![p] = "returned"]
            /\ pubRes' = [pubRes EXCEPT ![p] = "warned"]
       ELSE /\ pubPc' = [pubPc EXCEPT ![p] = "send"]
            /\ UNCHANGED pubRes
    /\ UNCHANGED <<consumerVars, prodCfg, prodPc, prodErr, prodSess, prodClosed,
                   prodInput, prodErrCh, prodErrCount, pclosePc, pcloseRet>>

\* Publish, lines 89-99: tp.Producer.Input() <- message.  A send on the
\* closed channel panics; otherwise the session takes the message.
Publish_Send(p) ==
    /\ pubPc[p] = "send"
    /\ IF prodSess = "closed"
       THEN /\ pubPc' = [pubPc EXCEPT ![p] = "panicked"]
            /\ UNCHANGED <<prodInput, pubRes>>
       ELSE /\ prodInput' = Append(prodInput, p)
            /\ pubPc' = [pubPc EXCEPT ![p] = "returned"]
            /\ pubRes' = [pubRes EXCEPT ![p] = "sent"]
    /\ UNCHANGED <<consumerVars, prodCfg, prodPc, prodErr, prodSess, prodClosed,
                   prodErrCh, prodErrCount, pclosePc, pcloseRet>>

Publish(p) ==
    \/ Publish_CheckClosed(p)
    \/ Publish_Send(p)

\* TopicAsyncProducer.Close, line 105: atomic.StoreInt64(&tp.closed, 1).
ProducerClose_Store ==
    /\ prodPc = "ready"
    /\ pclosePc = "idle"
    /\ prodClosed' = 1
    /\ pclosePc' = "stored"
    /\ UNCHANGED <<consumerVars, prodCfg, prodPc, prodErr, prodSess, prodInput,
                   prodErrCh, prodErrCount, pubPc, pubRes, pcloseRet>>

\* Line 106: tp.Producer.Close() starts shutting the session down.
ProducerClose_Begin ==
    /\ pclosePc = "stored"
    /\ prodSess' = "closing"
    /\ pclosePc' = "closing"
    /\ UNCHANGED <<consumerVars, prodCfg, prodPc, prodErr, prodClosed, prodInput,
                   prodErrCh, prodErrCount, pubPc, pubRes, pcloseRet>>

\* Line 106: tp.Producer.Close() returns once the buffered messages are
\* flushed or failed; the Input() channel is closed.
ProducerClose_Finish ==
    /\ pclosePc = "closing"
    /\ prodInput = <<>>
    /\ prodSess' = "closed"
    /\ \E r \in {"nil", ErrProducerClose} : pcloseRet' = r
    /\ pclosePc' = "returned"
    /\ UNCHANGED <<consumerVars, prodCfg, prodPc, prodErr, prodClosed, prodInput,
                   prodErrCh, prodErrCount, pubPc, pubRes>>

ProducerClose ==
    \/ ProducerClose_Store
    \/ ProducerClose_Begin
    \/ ProducerClose_Finish

\* The session publishes the oldest message it took, or fails and reports the
\* failure on Errors().
Producer_Dispatch ==
    /\ prodSess \in {"open", "closing"}
    /\ prodInput # <<>>
    /\ prodInput' = Tail(prodInput)
    /\ \E ok \in BOOLEAN : prodErrCh' = IF ok THEN prodErrCh ELSE prodErrCh + 1
    /\ UNCHANGED <<consumerVars, prodCfg, prodPc, prodErr, prodSess, prodClosed,
                   prodErrCount, pubPc, pubRes, pclosePc, pcloseRet>>

\* InitTopicAsyncProducer, lines 66-72: the goroutine draining Errors() logs
\* the error and adds 1 to the counter.
Producer_DrainError ==
    /\ prodErrCh > 0
    /\ prodErrCh' = prodErrCh - 1
    /\ prodErrCount' = prodErrCount + 1
    /\ UNCHANGED <<consumerVars, prodCfg, prodPc, prodErr, prodSess, prodClosed,
                   prodInput, pubPc, pubRes, pclosePc, pcloseRet>>

\* ------------------------------------------------------------ specifications
NewConsumer == NewConsumer_Validate \/ (resetCaller = "ctor" /\ Reset)

\* The consumer's lifecycle.
Next ==
    \/ NewConsumer_Validate
    \/ Reset
    \/ Consume
    \/ \E s \in StreamIds : Worker(s)
    \/ \E s \in StreamIds : Stream(s)
    \/ \E c \in Closers : Close(c)

Spec == Init /\ [][Next]_vars

\* Construction of the consumer and of the producer, over every configuration.
NextCtor ==
    \/ NewConsumer
    \/ InitTopicAsyncProducer

SpecCtor == InitCtor /\ [][NextCtor]_vars

\* Callback order: the consumer runs without Close while every stream
\* produces up to OrderMsgs messages and errors.
NextOrder ==
    \/ NewConsumer_Validate
    \/ Reset
    \/ Consume
    \/ \E s \in StreamIds : Worker(s)
    \/ \E s \in StreamIds : Deliver(s, OrderMsgs)
    \/ \E s \in StreamIds : Fail(s, OrderMsgs)
    \/ \E s \in StreamIds : Stream_Rebalance(s)

SpecOrder == Init /\ [][NextOrder]_vars

\* The producer: construction, concurrent Publish calls and Close.
InitProducer ==
    /\ cfg \in LifecycleCfgs
    /\ prodCfg \in ProducerCfgs
    /\ InitRest

NextProducer ==
    \/ InitTopicAsyncProducer
    \/ \E p \in Publishers : Publish(p)
    \/ ProducerClose
    \/ Producer_Dispatch
    \/ Producer_DrainError

SpecProducer == InitProducer /\ [][NextProducer]_vars

\* The lifecycle under the scheduler's fairness: every goroutine that can take
\* a step eventually does, and a stream on which AsyncClose was called closes
\* its channels.  Calling Consume or Close, delivering and rebalancing are the
\* environment's choice.
ConsumeStep ==
    \/ Consume_WgAdd
    \/ Consume_Load
    \/ Consume_OpenPartition
    \/ Consume_StorePartitionConsumers
    \/ Consume_Wait
    \/ Consume_CheckClosed
    \/ Consume_DeferDone
    \/ Consume_DeferStore
    \/ (resetCaller = "consume" /\ Reset)

CloseStep(c) ==
    \/ Close_LoadPartitionConsumers(c)
    \/ Close_AsyncClose(c)
    \/ Close_Wait(c)
    \/ Close_SessionClose(c)

FairSpec ==
    /\ Init
    /\ [][Next]_vars
    /\ WF_vars(ConsumeStep)
    /\ \A c \in Closers : WF_vars(CloseStep(c))
    /\ \A s \in StreamIds : WF_vars(Worker(s))
    /\ \A s \in StreamIds : WF_vars(Stream_ChannelsClose(s))

\* ------------------------------------------------------------ claims
\* A callback (messagesFunc or errorsFunc) is invoked in this step.
CallbackInvoked ==
    \E s \in StreamIds :
        \/ (msgW[s] # "cb" /\ msgW'[s] = "cb")
        \/ (errW[s] # "cb" /\ errW'[s] = "cb")

SomeCloseReturned == \E c \in Closers : closePc[c] = "returned"

\* C1: once any call to Close() has returned, no message callback and no
\* error callback is invoked again.
C1_NoCallbackAfterClose ==
    [][SomeCloseReturned => ~CallbackInvoked]_vars

\* Every Close call that won the CompareAndSwap has returned.
WinnerReturned == \A c \in Closers : won[c] => closePc[c] = "returned"

\* C2: when Close() is invoked while a Consume invocation is in progress,
\* then, under fair scheduling and with streams that close once AsyncClose is
\* called on them, Close() eventually returns and Consume eventually returns.
C2_ShutdownTerminates ==
    closedDuringConsume ~> (WinnerReturned /\ pc = "returned")

Winners == {c \in Closers : won[c]}

AllClosersReturned == \A c \in Closers : closePc[c] = "returned"

\* C3: of N concurrent Close() calls exactly one wins the CompareAndSwap and
\* runs the shutdown sequence; the session's Close is invoked by Close() at
\* most once, exactly once when all N calls have returned, and no call panics.
C3_CloseOnce ==
    /\ Cardinality(Winners) <= 1
    /\ closeCalls <= 1
    /\ \A c \in Closers :
          /\ closePc[c] # "panicked"
          /\ closePc[c] \in {"load", "asyncclose", "wait", "sessclose"} => won[c]
    /\ AllClosersReturned => (Cardinality(Winners) = 1 /\ closeCalls = 1)

\* All N Close() calls have returned, one of them after waiting for Consume.
C3_Witness ==
    /\ AllClosersReturned
    /\ closedDuringConsume
    /\ pc = "returned"
    /\ closeCalls = 1

\* C4 (as claimed): all Close() calls return the same outcome.
C4_SameOutcome ==
    \A c, d \in Closers :
        (closePc[c] = "returned" /\ closePc[d] = "returned")
            => closeRet[c] = closeRet[d]

\* C4 (amended): a Close() call that finds closing in progress returns nil;
\* only the call that runs the shutdown returns the session Close's result, so
\* two calls differ only when that result is an error.
C4_EarlyCallsReturnNil ==
    /\ \A c \in Closers :
          closePc[c] = "returned" =>
              /\ ~won[c] => closeRet[c] = "nil"
              /\ won[c] => closeRet[c] \in {"nil", ErrSessionClose}
    /\ \A c, d \in Closers :
          (closePc[c] = "returned" /\ closePc[d] = "returned"
             /\ closeRet[c] # closeRet[d])
            => \E w \in {c, d} : won[w] /\ closeRet[w] = ErrSessionClose

\* Two Close() calls have returned, the one that ran the shutdown with the
\* session's error and the other with nil.
C4_Witness ==
    \E c, d \in Closers :
        /\ closePc[c] = "returned" /\ won[c] /\ closeRet[c] = ErrSessionClose
        /\ closePc[d] = "returned" /\ ~won[d] /\ closeRet[d] = "nil"

\* C5: Close() closes the session only when no Consume invocation that has
\* been entered is still running.
C5_SessionCloseAfterConsume ==
    [][closeCalls' # closeCalls => ~ConsumeRunning]_vars

\* C6: IsHealthy() is true from construction until Consume returns, false once
\* Consume has returned, whatever it returned, and never true again.
C6_Health ==
    /\ [](/\ (Constructed /\ pc # "returned") => IsHealthy
          /\ pc = "returned" =>
                /\ ~IsHealthy
                /\ consumeRet \in {"nil", ErrConsumePartition, ErrNewConsumer,
                                   ErrPartitions})
    /\ [][~IsHealthy => ~IsHealthy']_vars

\* Consume has returned the error of a failed ConsumePartition.
C6_Witness ==
    /\ pc = "returned"
    /\ consumeRet = ErrConsumePartition
    /\ ~IsHealthy

\* The handles Consume opened are one per partition of the published
\* assignment, in its order, all on the published session.
HandlesMatchAssignment ==
    /\ lPCs = [i \in 1..Len(kcPartitions) |-> <<kcConsumer, kcPartitions[i]>>]
    /\ kcPartitionConsumers = lPCs
    /\ \A i \in 1..Len(lPCs) : stState[lPCs[i]] # "none"

\* C7: when the goroutines of the assignment have all finished and the closed
\* flag is unset, Consume does not return but runs Reset; a Reset that succeeds
\* publishes a session other than the previous one with its partition list and
\* Consume loops; and whenever Consume waits, it has opened one stream per
\* partition of the published assignment on the published session.
C7_Rebalance ==
    /\ [][(pc = "check" /\ closed = 0 /\ pc' # pc)
             => (pc' = "reset_close" /\ resetCaller' = "consume")]_vars
    /\ [][(pc = "reset_store_p" /\ resetCaller = "consume" /\ pc' # pc)
             => /\ pc' = "loop"
                /\ kcConsumer' = resetC /\ kcConsumer' # lConsumer
                /\ sess[resetC] = "open"
                /\ kcPartitions' = resetP]_vars
    /\ [](pc = "wait" => HandlesMatchAssignment)

\* After a rebalance Consume waits on the streams of the new session.
C7_Witness ==
    /\ pc = "wait"
    /\ lConsumer # 1
    /\ closed = 0
    /\ Len(lPCs) = Len(kcPartitions)

\* Reset failed inside Consume.
RebalanceFailed == resetCaller = "consume" /\ resetErr \notin {"none", "nil"}

\* C8: when Reset fails after an involuntary closure, Consume returns exactly
\* that error, opens no further session, and IsHealthy() is false once it has
\* returned.
C8_RebalanceFailure ==
    /\ [](RebalanceFailed =>
            /\ pc \in {"defer_done", "defer_store", "returned"}
            /\ consumeRet = resetErr
            /\ consumeRet \in {ErrNewConsumer, ErrPartitions}
            /\ pc = "returned" => ~IsHealthy)
    /\ [][RebalanceFailed => (NumSessions' = NumSessions /\ RebalanceFailed')]_vars

\* Consume has returned the error of the failed partition query.
C8_Witness ==
    /\ RebalanceFailed
    /\ pc = "returned"
    /\ consumeRet = ErrPartitions

\* C9: when NewConsumer returns an error, no session opened during that
\* construction is left open.
C9_NoSessionLeftOpen ==
    pc = "ctor_failed" => \A s \in Sessions : sess[s] # "open"

\* C10 (as claimed): construction with an empty broker list yields
\* ErrBrokersEmpty and a nil handle, on the consumer and on the producer path.
C10_BrokersEmpty ==
    /\ (Len(cfg.brokers) = 0 /\ pc # "new")
          => (pc = "ctor_failed" /\ ctorErr = ErrBrokersEmpty)
    /\ (Len(prodCfg.brokers) = 0 /\ prodPc # "init")
          => (prodPc = "failed" /\ prodErr = ErrBrokersEmpty)

\* C10 (amended): with an empty broker list both constructions return a nil
\* handle and an error, and open nothing; the producer's error is
\* ErrBrokersEmpty; the consumer's is ErrBrokersEmpty when the client
\* identifier is set, and ErrClientIDEmpty when it is not.
C10_BrokersEmptyAfterClientID ==
    /\ (Len(cfg.brokers) = 0 /\ pc # "new")
          => /\ pc = "ctor_failed"
             /\ NumSessions = 0
             /\ ctorErr = IF cfg.clientID = "" /\ cfg.saramaClientID = ""
                          THEN ErrClientIDEmpty ELSE ErrBrokersEmpty
    /\ (Len(prodCfg.brokers) = 0 /\ prodPc # "init")
          => (prodPc = "failed" /\ prodErr = ErrBrokersEmpty)

\* Both constructions have refused an empty broker list, the consumer's with
\* the topic empty as well.
C10_Witness ==
    /\ Len(cfg.brokers) = 0 /\ cfg.topic = "" /\ cfg.clientID # ""
    /\ pc = "ctor_failed" /\ ctorErr = ErrBrokersEmpty
    /\ Len(prodCfg.brokers) = 0
    /\ prodPc = "failed" /\ prodErr = ErrBrokersEmpty

\* C11: a Publish issued after Close has completed returns at once having
\* only logged the warning: it does not panic, does not wait and puts nothing
\* on the session's Input() channel.
C11_PublishAfterClose ==
    [][\A p \in Publishers :
          (pclosePc = "returned" /\ pubPc[p] = "idle" /\ pubPc'[p] # "idle")
             => /\ pubPc'[p] = "returned"
                /\ pubRes'[p] = "warned"
                /\ prodInput' = prodInput]_vars

\* A Publish issued after Close completed has returned with the warning.
C11_Witness ==
    \E p \in Publishers :
        /\ pclosePc = "returned"
        /\ pubPc[p] = "returned"
        /\ pubRes[p] = "warned"
        /\ prodInput = <<>>

\* C20: no Publish sends on the session's Input() channel once Close has
\* started closing the session, and no Publish panics on the closed channel.
C20_NoSendAfterCloseStarted ==
    [][\A p \in Publishers :
          (pubPc[p] = "send" /\ pubPc'[p] # "send")
             => (prodSess = "open" /\ pubPc'[p] = "returned")]_vars

\* C12: the published worker handles always belong to the published session
\* and assignment: every handle in kc.partitionConsumers is a stream of the
\* session in kc.consumer on a partition of kc.partitions.
C12_ConsistentSnapshot ==
    \A i \in 1..Len(kcPartitionConsumers) :
        /\ kcPartitionConsumers[i][1] = kcConsumer
        /\ \E j \in 1..Len(kcPartitions) :
              kcPartitionConsumers[i][2] = kcPartitions[j]

\* C13: with the consumer constructed and Consume never called, a Close() call
\* finds no worker handle to close, never waits on a non-zero counter, does
\* not panic, and the call that ran the shutdown has closed the session, once,
\* when it returns.
C13_CloseBeforeConsume ==
    pc = "ctor_ok" =>
        \A c \in Closers :
            /\ closePc[c] \notin {"asyncclose", "panicked"}
            /\ closePc[c] = "wait" => kcWg = 0
            /\ (won[c] /\ closePc[c] = "returned") =>
                  /\ sess[kcConsumer] = "closed"
                  /\ sessCloses[kcConsumer] = 1
                  /\ closeRet[c] \in {"nil", ErrSessionClose}

\* Close() has returned from a full shutdown and Consume was never called.
C13_Witness ==
    /\ pc = "ctor_ok"
    /\ \E c \in Closers :
          /\ won[c]
          /\ closePc[c] = "returned"
          /\ sess[kcConsumer] = "closed"

\* C14: for a configuration that passes validation, construction does not
\* panic and the consumer's tracing option is set (true when the configuration
\* left it unset).
C14_TracingDefaultsTrue ==
    (pc # "new" /\ ValidateConsumerConfig(cfg) = "nil") =>
        /\ pc # "ctor_panic"
        /\ cfg.tracing # "nil"

\* C15: when Consume's result is the error of a failed ConsumePartition,
\* Consume is on its way out, the failed partition is the one after the
\* streams it opened, and ConsumePartition was never called for the partitions
\* of the assignment that follow it.
C15_OpenFailureAborts ==
    consumeRet = ErrConsumePartition =>
        /\ pc \in {"defer_done", "defer_store", "returned"}
        /\ Len(lPCs) < Len(lPartitions)
        /\ stState[<<lConsumer, lPartitions[Len(lPCs) + 1]>>] = "failed"
        /\ \A j \in (Len(lPCs) + 2)..Len(lPartitions) :
              stState[<<lConsumer, lPartitions[j]>>] = "none"

\* Consume returned the error of the first partition of a two-partition
\* assignment.
C15_Witness ==
    /\ consumeRet = ErrConsumePartition
    /\ pc = "returned"
    /\ Len(lPCs) + 1 < Len(lPartitions)
    /\ stState[<<lConsumer, lPartitions[Len(lPartitions)]>>] = "none"

\* The sequence 1, 2, ..., n: what a stream has produced after n sends.
Produced(n) == [i \in 1..n |-> i]

\* C16: on every stream the messages handed to the message callback are, in
\* order, the first messages the stream delivered, and likewise the errors
\* handed to the error callback; a message or error is handed over only by a
\* goroutine whose previous callback has returned.
C16_CallbackOrder ==
    /\ [](\A s \in StreamIds :
             /\ msgLog[s] = Produced(Len(msgLog[s]))
             /\ errLog[s] = Produced(Len(errLog[s]))
             /\ Len(msgLog[s]) + Len(msgCh[s]) = sent[s]
             /\ Len(errLog[s]) + Len(errCh[s]) = failed[s])
    /\ [][\A s \in StreamIds :
             /\ msgLog'[s] # msgLog[s] => (msgW[s] = "recv" /\ msgW'[s] = "cb")
             /\ errLog'[s] # errLog[s] => (errW[s] = "recv" /\ errW'[s] = "cb")]_vars

\* On one stream the second message and the second error have reached their
\* callbacks, the second message after waiting on the channel behind the first.
C16_Witness ==
    \E s \in StreamIds :
        /\ Len(msgLog[s]) = OrderMsgs
        /\ Len(errLog[s]) = OrderMsgs
        /\ OrderMsgs >= 2
        /\ msgW[s] = "cb"

\* C17: when Consume has returned, every message goroutine and error goroutine
\* it started has exited.
C17_WorkersExitedAtReturn ==
    pc = "returned" =>
        \A s \in StreamIds :
            /\ msgW[s] \in {"none", "done"}
            /\ errW[s] \in {"none", "done"}

\* C18: when the Close() call that waited in kc.wg.Wait() for a Consume
\* invocation has returned, IsHealthy() reports false.
C18_UnhealthyWhenCloseReturns ==
    (waitedForConsume /\ \E c \in Closers : won[c] /\ closePc[c] = "returned")
        => ~IsHealthy

\* C19: no session has its Close invoked more than once.
C19_SessionClosedOnce ==
    \A s \in Sessions : sessCloses[s] <= 1

====
